---- MODULE Spec2Model ----
(***************************************************************************)
(* Model of the retrieval-augmented chat backend: the vector store         *)
(* (vector-store.ts: splitIntoChunks, getEmbedding, ingestDocumentText,    *)
(* searchDocumentsByQuery) and the HTTP handlers of index.ts               *)
(* (/api/documents/ingest, /api/chat, /api/mm-chat).                       *)
(*                                                                         *)
(* A JavaScript string is a sequence of one-character strings.  A value    *)
(* that may be absent (undefined / null) is a sequence of length 0 or 1.   *)
(* Every `await` on an external system (embedding provider, database,      *)
(* conversational memory, generation) is one atomic step: the call and     *)
(* its outcome; handlers of different requests interleave at these steps.  *)
(***************************************************************************)
EXTENDS Integers, Sequences, FiniteSets, TLC

(***************************************************************************)
(* Bounds of the model.                                                    *)
(***************************************************************************)
MaxReqs == 2
MaxDocs == 4

(***************************************************************************)
(* Program constants.                                                      *)
(***************************************************************************)
chunkSize == 150
chunkOverlap == 20
SnippetCap == 1000
MaxChars == 4000
PreviewCap == 300
RagLimit == 5

(***************************************************************************)
(* String helpers (String.prototype.trim, slice, includes, join).          *)
(***************************************************************************)
IsSpace(c) == c \in {" ", "\n", "\t"}

RECURSIVE TrimStart(_)
TrimStart(s) ==
    IF s # <<>> /\ IsSpace(Head(s)) THEN TrimStart(Tail(s)) ELSE s

RECURSIVE TrimEnd(_)
TrimEnd(s) ==
    IF s # <<>> /\ IsSpace(s[Len(s)]) THEN TrimEnd(SubSeq(s, 1, Len(s) - 1)) ELSE s

Trim(s) == TrimEnd(TrimStart(s))

\* s.slice(0, n) for n >= 0
Slice0(s, n) == SubSeq(s, 1, IF Len(s) < n THEN Len(s) ELSE n)

\* s.substring(p) starts with sep  (p is a 0-based offset)
StartsAt(s, p, sep) ==
    /\ p + Len(sep) <= Len(s)
    /\ SubSeq(s, p + 1, p + Len(sep)) = sep

Includes(s, sep) == \E p \in 0..Len(s) : StartsAt(s, p, sep)

RECURSIVE Join(_, _)
Join(ss, sep) ==
    IF ss = <<>> THEN <<>>
    ELSE IF Len(ss) = 1 THEN ss[1]
    ELSE ss[1] \o sep \o Join(Tail(ss), sep)

\* the character c repeated n times
Rep(c, n) == [i \in 1..n |-> c]

\* Number -> decimal string (template literal `${n}`), n >= 0
DigitChar(d) == <<"0", "1", "2", "3", "4", "5", "6", "7", "8", "9">>[d + 1]

RECURSIVE ToStr(_)
ToStr(n) == IF n < 10 THEN <<DigitChar(n)>> ELSE ToStr(n \div 10) \o <<DigitChar(n % 10)>>

\* decimal string -> number (the database's parse of a vector literal entry)
DigitVal(c) == CHOOSE d \in 0..9 : DigitChar(d) = c

RECURSIVE ToNum(_)
ToNum(s) == IF s = <<>> THEN 0 ELSE 10 * ToNum(SubSeq(s, 1, Len(s) - 1)) + DigitVal(s[Len(s)])

(***************************************************************************)
(* RecursiveCharacterTextSplitter with the configuration of                *)
(* vector-store.ts: chunkSize 150, chunkOverlap 20, separators             *)
(* ["\n\n", "\n", " ", ""], separators kept at the start of each split.    *)
(***************************************************************************)
separators == << <<"\n", "\n">>, <<"\n">>, <<" ">>, <<>> >>

\* offsets 0 < p < Len(s) at which the text is cut: before every occurrence
\* of the separator; every offset for the empty separator
CutPoints(s, sep) ==
    IF sep = <<>> THEN 1..(Len(s) - 1)
    ELSE {p \in 1..(Len(s) - 1) : StartsAt(s, p, sep)}

\* text.split(/(?=sep)/) (text.split("") for the empty separator), the
\* pieces in order
splitOnSeparator(s, sep) ==
    IF s = <<>> THEN <<>>
    ELSE IF sep = <<>> THEN [k \in 1..Len(s) |-> <<s[k]>>]
    ELSE LET B == CutPoints(s, sep) \cup {0, Len(s)}
             rank == [p \in B |-> Cardinality({q \in B : q < p})]
             nth(k) == CHOOSE p \in B : rank[p] = k - 1
         IN  [k \in 1..(Cardinality(B) - 1) |-> SubSeq(s, nth(k) + 1, nth(k + 1))]

\* balanced concatenation ss[lo] \o ... \o ss[hi]
RECURSIVE ConcatRange(_, _, _)
ConcatRange(ss, lo, hi) ==
    IF lo > hi THEN <<>>
    ELSE IF lo = hi THEN ss[lo]
    ELSE LET mid == (lo + hi) \div 2
         IN  ConcatRange(ss, lo, mid) \o ConcatRange(ss, mid + 1, hi)

RECURSIVE SumRange(_, _, _)
SumRange(ss, lo, hi) ==
    IF lo > hi THEN 0
    ELSE IF lo = hi THEN Len(ss[lo])
    ELSE LET mid == (lo + hi) \div 2
         IN  SumRange(ss, lo, mid) + SumRange(ss, mid + 1, hi)

MinOf(S) == CHOOSE x \in S : \A y \in S : x <= y

\* joinDocs(currentDoc, ""): docs.join("").trim(), null (here: no chunk) when
\* empty; currentDoc is splits[a..b]
joinDocs(splits, a, b) ==
    LET t == Trim(ConcatRange(splits, a, b)) IN IF t = <<>> THEN <<>> ELSE <<t>>

\* mergeSplits with currentDoc = splits[a..c] and splits c+1.. still to add.
\* The next split k that does not fit (total + len > chunkSize, currentDoc
\* not empty) closes the chunk splits[a..k-1]; then leading splits are
\* popped while total > chunkOverlap, or while the next split still does not
\* fit and total > 0; split k is pushed and the loop goes on.
RECURSIVE MergeFrom(_, _, _, _)
MergeFrom(splits, P, a, c) ==
    LET n == Len(splits)
        total(j, k) == P[k - 1] - P[j - 1]
        K == {k \in (c + 1)..n :
                 total(a, k) + Len(splits[k]) > chunkSize /\ k - 1 >= a}
    IN  IF K = {} THEN joinDocs(splits, a, n)
        ELSE LET k == MinOf(K)
                 keepPopping(j) ==
                     \/ total(j, k) > chunkOverlap
                     \/ total(j, k) + Len(splits[k]) > chunkSize /\ total(j, k) > 0
                 a2 == MinOf({j \in a..k : ~keepPopping(j)})
             IN  joinDocs(splits, a, k - 1) \o MergeFrom(splits, P, a2, k)

mergeSplits(splits) ==
    MergeFrom(splits, [k \in 0..Len(splits) |-> SumRange(splits, 1, k)], 1, 0)

\* index of the separator used for this text: the first one that is empty or
\* occurs in the text
SepIndex(s, seps) ==
    CHOOSE i \in 1..Len(seps) :
        /\ seps[i] = <<>> \/ Includes(s, seps[i])
        /\ \A j \in 1..(i - 1) : ~(seps[j] = <<>> \/ Includes(s, seps[j]))

\* _splitText: splits shorter than chunkSize are collected (goodSplits) and
\* merged when a long split or the end is met; a long split is split again
\* with the remaining separators, or kept whole when none remains.
RECURSIVE splitText(_, _)
splitText(s, seps) ==
    LET i == SepIndex(s, seps)
        newSeps == IF seps[i] = <<>> THEN <<>> ELSE SubSeq(seps, i + 1, Len(seps))
        splits == splitOnSeparator(s, seps[i])
        n == Len(splits)
        good(k) == Len(splits[k]) < chunkSize
        runStart(k) == good(k) /\ (k = 1 \/ ~good(k - 1))
        runEnd(k) == CHOOSE j \in k..n :
                        /\ \A m \in k..j : good(m)
                        /\ j = n \/ ~good(j + 1)
        item(k) == IF ~good(k)
                   THEN IF newSeps = <<>> THEN <<splits[k]>>
                        ELSE splitText(splits[k], newSeps)
                   ELSE IF runStart(k) THEN mergeSplits(SubSeq(splits, k, runEnd(k)))
                   ELSE <<>>
    IN  ConcatRange([k \in 1..n |-> item(k)], 1, n)

splitIntoChunks(text) ==
    LET trimmed == Trim(text) IN
    IF trimmed = <<>> THEN <<>> ELSE splitText(trimmed, separators)

(***************************************************************************)
(* Embedding client (getEmbedding) and the pgvector literal.               *)
(***************************************************************************)
\* The provider's vector for a non-blank input.  The real model returns 1536
\* floats; here a two-component feature vector, never the zero vector.
ProviderVector(input) ==
    <<Len(input), 1 + Cardinality({k \in 1..Len(input) : input[k] = "a"})>>

ProviderOutcomes == {"ok", "error", "empty"}

\* getEmbedding without its guard on the trimmed input
getEmbedding_NoCheck(text, prov) ==
    LET input == Trim(text) IN
    IF prov = "error"
    THEN [ok |-> FALSE, err |-> "Provider", called |-> TRUE, emb |-> <<>>]
    ELSE IF prov = "empty"
    THEN [ok |-> FALSE, err |-> "EmptyEmbedding", called |-> TRUE, emb |-> <<>>]
    ELSE [ok |-> TRUE, err |-> "none", called |-> TRUE, emb |-> ProviderVector(input)]

\* getEmbedding(text) when the provider answers `prov`.  `called` tells
\* whether openai.embeddings.create was invoked.
getEmbedding(text, prov) ==
    LET input == Trim(text) IN
    IF input = <<>>
    THEN [ok |-> FALSE, err |-> "EmptyInput", called |-> FALSE, emb |-> <<>>]
    ELSE IF prov = "error"
    THEN [ok |-> FALSE, err |-> "Provider", called |-> TRUE, emb |-> <<>>]
    ELSE IF prov = "empty"
    THEN [ok |-> FALSE, err |-> "EmptyEmbedding", called |-> TRUE, emb |-> <<>>]
    ELSE [ok |-> TRUE, err |-> "none", called |-> TRUE, emb |-> ProviderVector(input)]

\* `[${embedding.join(",")}]`
embeddingLiteral(emb) ==
    <<"[">> \o Join([k \in 1..Len(emb) |-> ToStr(emb[k])], <<",">>) \o <<"]">>

\* the database's cast  $n::vector  of such a literal
ParseVector(lit) ==
    LET inner == SubSeq(lit, 2, Len(lit) - 1)
        B == {0, Len(inner) + 1} \cup {p \in 1..Len(inner) : inner[p] = ","}
        rank == [p \in B |-> Cardinality({q \in B : q < p})]
        nth(k) == CHOOSE p \in B : rank[p] = k - 1
    IN  [k \in 1..(Cardinality(B) - 1) |-> ToNum(SubSeq(inner, nth(k) + 1, nth(k + 1) - 1))]

(***************************************************************************)
(* The documents table and the two statements sent through pool.query.     *)
(***************************************************************************)
\* columns of the table created by initDocumentVectorTable
TableColumns == {"id", "content", "embedding", "chunk_index"}

\* INSERT INTO documents (content, embedding, chunk_index) VALUES ($1, $2::vector, $3)
InsertSQL == [columns |-> {"content", "embedding", "chunk_index"}, placeholders |-> 3]

\* SELECT id, content, 1 - (embedding <=> $1::vector) AS similarity FROM documents
\* WHERE document_id = $2 ORDER BY similarity DESC LIMIT $3
SelectSQL == [columns |-> {"id", "content", "embedding", "document_id"}, placeholders |-> 3]

DbOutcomes == {"ok", "error"}

\* The server accepts a statement when every column it names exists and the
\* number of bound values equals the number of placeholders; `db` is the
\* state of the connection.
Accepted(sql, params, db) ==
    /\ db = "ok"
    /\ sql.columns \subseteq TableColumns
    /\ Len(params) = sql.placeholders

Dot(u, v) == LET m == IF Len(u) < Len(v) THEN Len(u) ELSE Len(v)
                 RECURSIVE S(_)
                 S(k) == IF k = 0 THEN 0 ELSE u[k] * v[k] + S(k - 1)
             IN  S(m)

SgnSq(n) == IF n < 0 THEN 0 - n * n ELSE n * n

\* 1 - (u <=> q) >= 1 - (v <=> q): cosine similarity to q, compared without
\* square roots
SimGeq(u, v, q) == SgnSq(Dot(u, q)) * Dot(v, v) >= SgnSq(Dot(v, q)) * Dot(u, u)

\* rows of a accepted SELECT: the records whose document_id is $2, by
\* non-increasing similarity to $1, at most $3 of them
SelectRows(table, params) ==
    LET q == ParseVector(params[1])
        hit == {k \in 1..Len(table) :
                   "document_id" \in DOMAIN table[k] /\ table[k]["document_id"] = params[2]}
        better(j, k) == \/ ~SimGeq(table[k].embedding, table[j].embedding, q)
                        \/ SimGeq(table[j].embedding, table[k].embedding, q) /\ j < k
        pos(k) == 1 + Cardinality({j \in hit : j # k /\ better(j, k)})
        n == IF Cardinality(hit) < params[3] THEN Cardinality(hit) ELSE params[3]
    IN  [m \in 1..n |->
            LET k == CHOOSE k \in hit : pos(k) = m
            IN  [id |-> k, content |-> table[k].content, embedding |-> table[k].embedding]]

(***************************************************************************)
(* Schema statements of initDocumentVectorTable (db-init.ts).  The catalog *)
(* keeps its extensions, tables, columns and indexes as lists, so that a   *)
(* structure created twice would show twice.                               *)
(***************************************************************************)
EmptySchema == [extensions |-> <<>>, tables |-> <<>>, indexes |-> <<>>]

\* CREATE EXTENSION IF NOT EXISTS vector
CreateExtensionSQL == [kind |-> "extension", name |-> "vector", ifNotExists |-> TRUE]

\* CREATE TABLE IF NOT EXISTS documents (id, content, embedding, chunk_index)
CreateTableSQL ==
    [kind |-> "table", name |-> "documents", ifNotExists |-> TRUE,
     columns |-> <<"id", "content", "embedding", "chunk_index">>]

\* ALTER TABLE documents ADD COLUMN IF NOT EXISTS chunk_index INT
AddColumnSQL ==
    [kind |-> "column", table |-> "documents", name |-> "chunk_index",
     ifNotExists |-> TRUE]

\* the index statement without IF NOT EXISTS
CreateIndexSQL_Plain ==
    [kind |-> "index", name |-> "embeddingindex", table |-> "documents",
     column |-> "embedding", ifNotExists |-> FALSE]

\* CREATE INDEX IF NOT EXISTS embeddingIndex ON documents USING hnsw (embedding ...)
\* (the unquoted name is folded to lower case)
CreateIndexSQL ==
    [kind |-> "index", name |-> "embeddingindex", table |-> "documents",
     column |-> "embedding", ifNotExists |-> TRUE]

\* the statements in the order initDocumentVectorTable sends them
InitStatements == <<CreateExtensionSQL, CreateTableSQL, AddColumnSQL, CreateIndexSQL>>

\* positions of the table named `name` in the catalog
TablesNamed(s, name) == {k \in 1..Len(s.tables) : s.tables[k].name = name}

HasColumn(s, table, column) ==
    \E k \in TablesNamed(s, table) :
        \E c \in 1..Len(s.tables[k].columns) : s.tables[k].columns[c] = column

\* does the structure the statement creates exist already
Exists(s, stmt) ==
    IF stmt.kind = "extension"
    THEN \E k \in 1..Len(s.extensions) : s.extensions[k] = stmt.name
    ELSE IF stmt.kind = "table" THEN TablesNamed(s, stmt.name) # {}
    ELSE IF stmt.kind = "column" THEN HasColumn(s, stmt.table, stmt.name)
    ELSE \E k \in 1..Len(s.indexes) : s.indexes[k].name = stmt.name

\* does what the statement builds on exist
Applicable(s, stmt) ==
    IF stmt.kind = "column" THEN TablesNamed(s, stmt.table) # {}
    ELSE IF stmt.kind = "index" THEN HasColumn(s, stmt.table, stmt.column)
    ELSE TRUE

\* the catalog with the structure of the statement added
Created(s, stmt) ==
    IF stmt.kind = "extension"
    THEN [s EXCEPT !.extensions = Append(@, stmt.name)]
    ELSE IF stmt.kind = "table"
    THEN [s EXCEPT !.tables = Append(@, [name |-> stmt.name, columns |-> stmt.columns])]
    ELSE IF stmt.kind = "column"
    THEN [s EXCEPT !.tables =
             [k \in 1..Len(@) |->
                 IF @[k].name = stmt.table
                 THEN [@[k] EXCEPT !.columns = Append(@, stmt.name)]
                 ELSE @[k]]]
    ELSE [s EXCEPT !.indexes =
             Append(@, [name |-> stmt.name, table |-> stmt.table, column |-> stmt.column])]

\* The database's answer to a schema statement: with IF NOT EXISTS an
\* existing structure is left alone, without it the statement fails.
Execute(s, stmt) ==
    IF ~Applicable(s, stmt) THEN [err |-> "missing", schema |-> s]
    ELSE IF Exists(s, stmt)
    THEN [err |-> IF stmt.ifNotExists THEN "none" ELSE "exists", schema |-> s]
    ELSE [err |-> "none", schema |-> Created(s, stmt)]

\* the catalog after the first k statements, each of them accepted
RECURSIVE RunStatements(_, _)
RunStatements(s, k) ==
    IF k = 0 THEN s
    ELSE Execute(RunStatements(s, k - 1), InitStatements[k]).schema

\* the catalog the server works on: bootstrap awaits initDocumentVectorTable
\* before it serves
Initialized == RunStatements(EmptySchema, Len(InitStatements))

\* a table of an older version, without chunk_index
OldTable == [name |-> "documents", columns |-> <<"id", "content", "embedding">>]

\* catalogs a first call may find
InitSchemas ==
    { EmptySchema,
      [EmptySchema EXCEPT !.extensions = <<"vector">>],
      [EmptySchema EXCEPT !.extensions = <<"vector">>, !.tables = <<OldTable>>],
      Initialized }

(***************************************************************************)
(* Context assembly and message building of /api/chat and /api/mm-chat.    *)
(***************************************************************************)
SnippetWord == <<"S","n","i","p","p","e","t"," ">>
SnippetColon == <<":","\n">>
SnippetSeparator == <<"\n","\n","-","-","-","\n","\n">>
SystemPrefix == <<"T","h","e"," ","f","o","l","l","o","w","i","n","g"," ","s","n","i","p","p","e","t","s"," ","a","r","e"," ","f","r","o","m"," ","t","h","e"," ","u","s","e","r","'","s"," ","u","p","l","o","a","d","e","d"," ","d","o","c","u","m","e","n","t","s","."," ","U","s","e"," ","t","h","e","m"," ","i","f"," ","r","e","l","e","v","a","n","t",":","\n","\n">>
IngestMarker == <<"[","D","o","c","u","m","e","n","t"," ","i","n","g","e","s","t","e","d"," ","i","n","t","o"," ","k","n","o","w","l","e","d","g","e"," ","b","a","s","e"," ","a","s"," ","c","h","u","n","k","s","]","\n">>
Ellipsis == <<".",".",".">>
SummarizePrompt == <<"S","u","m","m","a","r","i","z","e"," ","t","h","e"," ","u","p","l","o","a","d","e","d"," ","d","o","c","u","m","e","n","t",".">>
ExplainPrompt == <<"E","x","p","l","a","i","n"," ","t","h","e"," ","u","p","l","o","a","d","e","d"," ","c","o","n","t","e","n","t",".">>
NoAnswer == <<"(","n","o"," ","a","n","s","w","e","r",")">>

\* `Snippet ${idx + 1}:\n${d.content.slice(0, 1000)}`, idx 0-based
Snippet(d, idx) ==
    SnippetWord \o ToStr(idx + 1) \o SnippetColon \o Slice0(d.content, SnippetCap)

\* the joined snippets without the final .slice(0, 4000)
RagContext_NoCap(docs) ==
    IF Len(docs) > 0
    THEN Join([k \in 1..Len(docs) |-> Snippet(docs[k], k - 1)], SnippetSeparator)
    ELSE <<>>

\* the value of ragContext after the try block, given the rows returned
RagContext(docs) ==
    IF Len(docs) > 0
    THEN Slice0(Join([k \in 1..Len(docs) |-> Snippet(docs[k], k - 1)], SnippetSeparator),
                MaxChars)
    ELSE <<>>

\* the messages without the  if (ragContext)  around the system message
BuildMessages_Always(ragContext, userText) ==
    <<[role |-> "system", content |-> SystemPrefix \o ragContext],
      [role |-> "user", content |-> userText]>>

\* the messages handed to agent.generateText
BuildMessages(ragContext, userText) ==
    (IF ragContext # <<>>
     THEN <<[role |-> "system", content |-> SystemPrefix \o ragContext]>>
     ELSE <<>>)
    \o <<[role |-> "user", content |-> userText]>>

\* the preview without the ellipsis
Preview_NoEllipsis(text) == Slice0(text, PreviewCap)

\* trimmed.slice(0, 300) + (trimmed.length > 300 ? "..." : "")
Preview(text) ==
    Slice0(text, PreviewCap) \o (IF Len(text) > PreviewCap THEN Ellipsis ELSE <<>>)

MarkerMessage(text) == [role |-> "system", content |-> IngestMarker \o Preview(text)]

\* question.trim() || (uploadedText ? "Summarize ..." : "Explain ...")
EffectiveQuestion(question, uploadedText) ==
    IF Trim(question) # <<>> THEN Trim(question)
    ELSE IF uploadedText # <<>> THEN SummarizePrompt
    ELSE ExplainPrompt

(***************************************************************************)
(* Inputs.                                                                 *)
(***************************************************************************)
\* String(body.text ?? ""), and the text of an optional file or field
StringOf(opt) == IF opt = <<>> THEN <<>> ELSE opt[1]

Word == <<"a", "b", "c", "d">>

\* 70 words separated by single spaces: 349 characters, three chunks
LongText == [k \in 1..349 |-> IF k % 5 = 0 THEN " " ELSE Word[k % 5]]

ShortText == <<" ", "h", "i", " ">>
Whitespace == <<" ", "\n">>
PaddedLong == <<" ">> \o LongText \o <<"\n">>
Question == <<" ", "q", "?">>

\* request bodies of POST /api/documents/ingest; an absent field is <<>>, a
\* present one <<value>>
IngestBodies ==
    { [text |-> <<>>,           conversationId |-> <<>>],
      [text |-> <<Whitespace>>, conversationId |-> <<"c1">>],
      [text |-> <<ShortText>>,  conversationId |-> <<>>],
      [text |-> <<PaddedLong>>, conversationId |-> <<"c1">>] }

\* request bodies of POST /api/chat
ChatBodies ==
    { [text |-> <<>>,           conversationId |-> <<>>],
      [text |-> <<Whitespace>>, conversationId |-> <<"c1">>],
      [text |-> <<ShortText>>,  conversationId |-> <<>>] }

\* multipart forms of POST /api/mm-chat
MmForms ==
    { [file |-> <<>>,           question |-> <<Question>>, conversationId |-> <<"c1">>],
      [file |-> <<ShortText>>,  question |-> <<>>,         conversationId |-> <<"">>] }

\* arguments of the direct calls of the vector-store functions
LibTexts == {<<>>, Whitespace, ShortText, LongText}
LibQueries == {<<>>, Whitespace, ShortText}
Limits == {1, RagLimit}

\* rows a SELECT may hand back to a handler: any list of at most MaxDocs rows
\* whose contents are empty, short, exactly SnippetCap or longer
RowContents ==
    {<<>>, <<"p">>, Rep("q", SnippetCap), Rep("r", SnippetCap) \o <<"s">>}

RowLists ==
    UNION {[1..n -> RowContents] : n \in 0..MaxDocs}

\* `conv_${Date.now()}`
GeneratedConv == "conv_now"

Conversations == {"c1", GeneratedConv}

\* JavaScript truthiness of an optional string
Truthy(opt) == IF opt = <<>> THEN FALSE ELSE opt[1] # ""

AnswerText == <<"o", "k">>

\* outcomes of agent.generateText: a result with its text, an error
GenOutcomes == {"ok", "error"}

\* splitIntoChunks, tabulated once for the texts of the model
IngestArgs ==
    {Trim(StringOf(b.text)) : b \in IngestBodies}
        \cup {StringOf(f.file) : f \in MmForms} \cup LibTexts

Chunked == [text \in IngestArgs |-> splitIntoChunks(text)]

(***************************************************************************)
(* State.                                                                  *)
(***************************************************************************)
VARIABLES
    reqs,       \* the requests (or direct calls): one record per slot
    documents,  \* the rows of the documents table, in insertion order
    memoryLog,  \* the conversational memory store: for each conversationId
                \* the messages appended through memory.addMessage
    schema      \* the database's extensions, tables and indexes

vars == <<reqs, documents, memoryLog, schema>>

Slots == 1..MaxReqs

\* the JSON of a response; a field the response lacks keeps the value here
NoBody ==
    [error |-> "", success |-> FALSE, text |-> <<>>, answer |-> <<>>,
     conversationId |-> <<>>]

\* a slot no request has used yet
Idle ==
    [kind |-> "none", pc |-> "idle",
     text |-> <<>>,          \* the text received; once validated, the
                             \* argument of ingestDocumentText
     conv |-> <<>>,          \* conversationId
     query |-> <<>>,         \* argument of searchDocumentsByQuery, user message
     limit |-> 0,
     i |-> 0, emb |-> <<>>,  \* loop index and embedding of ingestDocumentText
     docs |-> <<>>, rag |-> <<>>, messages |-> <<>>,
     status |-> 0, body |-> NoBody,
     outcome |-> "none",     \* of a direct call: "returned" or "threw"
     value |-> <<>>,         \* what a direct call returned
     err |-> "none",         \* the step whose error ended the request or call
     search |-> "none",      \* how retrieval ended: "returned" or "threw"
     ingested |-> FALSE,     \* ingestDocumentText returned normally
     nEmbed |-> 0, nDb |-> 0,\* provider calls and database calls made
     nGen |-> 0              \* calls of agent.generateText made, each with
                             \* the messages of the field above
    ]

Init ==
    /\ reqs = [r \in Slots |-> Idle]
    /\ documents = <<>>
    /\ memoryLog = [c \in Conversations |-> <<>>]
    /\ schema = Initialized

\* slots are taken in order
Free(r) == reqs[r].pc = "idle" /\ (IF r = 1 THEN TRUE ELSE reqs[r - 1].pc # "idle")

Handlers == {"ingest", "chat", "mm"}

(***************************************************************************)
(* How a handler or a call ends.                                           *)
(***************************************************************************)
Respond(t, status, body) == [t EXCEPT !.pc = "done", !.status = status, !.body = body]

\* ingestDocumentText returned: the handler goes on
AfterIngest(t) ==
    LET u == [t EXCEPT !.ingested = TRUE] IN
    IF u.kind = "ingest"
    THEN IF Truthy(u.conv) THEN [u EXCEPT !.pc = "addMessage"]
         ELSE Respond(u, 200, [NoBody EXCEPT !.success = TRUE])
    ELSE IF u.kind = "mm" THEN [u EXCEPT !.pc = "addMessage"]
    ELSE [u EXCEPT !.pc = "done", !.outcome = "returned"]

Throw_Swallowed(t, err) ==
    IF err \in {"embed", "insert"} THEN [AfterIngest(t) EXCEPT !.err = err, !.ingested = FALSE]
    ELSE [t EXCEPT !.pc = "done", !.status = 500, !.err = err]

\* an error nothing catches: the server answers 500, a direct call rejects
Throw(t, err) ==
    IF t.kind \in Handlers
    THEN [t EXCEPT !.pc = "done", !.status = 500, !.err = err,
                   !.body = [NoBody EXCEPT !.error = "Internal Server Error"]]
    ELSE [t EXCEPT !.pc = "done", !.outcome = "threw", !.err = err]

\* a handler of /api/mm-chat that goes on to retrieval without the ingestion
ingestDocumentText_Skipped(t, text) ==
    IF t.kind = "mm" THEN [t EXCEPT !.text = text, !.pc = "search"]
    ELSE IF Len(Chunked[text]) = 0 THEN AfterIngest([t EXCEPT !.text = text])
    ELSE [t EXCEPT !.text = text, !.i = 0, !.pc = "embed"]

\* ingestDocumentText(text) up to its first await on an external system
ingestDocumentText(t, text) ==
    IF Len(Chunked[text]) = 0 THEN AfterIngest([t EXCEPT !.text = text])
    ELSE [t EXCEPT !.text = text, !.i = 0, !.pc = "embed"]

\* a loop that undoes its earlier inserts when a step fails
AfterFailure_Rollback(table, r) == SelectSeq(table, LAMBDA d : d.by # r)

\* The table after a step of the loop of ingestDocumentText has failed: each
\* INSERT is a statement of its own, no transaction wraps the loop.
AfterFailure(table, r) == table

\* a row tagged with a 1-based index
InsertedRow_OneBased(params, r) ==
    [content |-> params[1], embedding |-> ParseVector(params[2]),
     chunk_index |-> params[3] + 1, by |-> r]

\* the row the INSERT adds for its bound values; `by` names the inserting
\* request and is no column
InsertedRow(params, r) ==
    [content |-> params[1], embedding |-> ParseVector(params[2]),
     chunk_index |-> params[3], by |-> r]

\* a handler without the try/catch around searchDocumentsByQuery
AfterSearch_NoCatch(t, err, docs) ==
    IF err # "none" /\ t.kind \in Handlers
    THEN [t EXCEPT !.search = "threw", !.pc = "done", !.status = 500, !.err = err]
    ELSE LET rag == RagContext(docs) IN
         [t EXCEPT !.search = "returned", !.docs = docs, !.rag = rag,
                   !.messages = BuildMessages(rag, t.query), !.pc = "generate"]

\* searchDocumentsByQuery ended, with the error err if it threw.  In a
\* handler: the try/catch around it, whose catch logs the error and drops
\* it, and what follows up to the await of agent.generateText
AfterSearch(t, err, docs) ==
    IF t.kind \in Handlers
    THEN LET rag == IF err # "none" THEN <<>> ELSE RagContext(docs) IN
         [t EXCEPT !.search = IF err # "none" THEN "threw" ELSE "returned",
                   !.docs = docs, !.rag = rag,
                   !.messages = BuildMessages(rag, t.query),
                   !.pc = "generate"]
    ELSE [t EXCEPT !.search = IF err # "none" THEN "threw" ELSE "returned",
                   !.value = docs, !.pc = "done", !.err = err,
                   !.outcome = IF err # "none" THEN "threw" ELSE "returned"]

\* if (!trimmed) of /api/documents/ingest
IngestRejects_NoTrim(text) == text = <<>>

IngestRejects(text) == Trim(text) = <<>>

\* if (!text.trim()) of /api/chat
ChatRejects_NoTrim(text) == text = <<>>

ChatRejects(text) == Trim(text) = <<>>

(***************************************************************************)
(* POST /api/documents/ingest                                              *)
(***************************************************************************)
StartIngest(r) ==
    /\ Free(r)
    /\ \E body \in IngestBodies :
          LET text == StringOf(body.text)
              conversationId == body.conversationId
              trimmed == Trim(text)
              t == [Idle EXCEPT !.kind = "ingest", !.text = text, !.conv = conversationId]
          IN  reqs' = [reqs EXCEPT ![r] =
                  IF IngestRejects(text)
                  THEN Respond(t, 400, [NoBody EXCEPT !.error = "text is required"])
                  ELSE ingestDocumentText(t, trimmed)]
    /\ UNCHANGED <<documents, memoryLog, schema>>

(***************************************************************************)
(* ingestDocumentText: the loop over the chunks                            *)
(***************************************************************************)
\* const embedding = await getEmbedding(chunk)
IngestEmbed(r) ==
    /\ reqs[r].pc = "embed"
    /\ \E prov \in ProviderOutcomes :
          LET t == reqs[r]
              e == getEmbedding(Chunked[t.text][t.i + 1], prov)
              u == [t EXCEPT !.nEmbed = @ + (IF e.called THEN 1 ELSE 0)]
          IN  /\ reqs' = [reqs EXCEPT ![r] =
                  IF e.ok THEN [u EXCEPT !.emb = e.emb, !.pc = "insert"]
                  ELSE Throw(u, "embed")]
              /\ documents' = IF e.ok THEN documents ELSE AfterFailure(documents, r)
    /\ UNCHANGED <<memoryLog, schema>>

\* an INSERT that overwrites a stored row with the same chunk_index
IngestInsert_Upsert(r) ==
    /\ reqs[r].pc = "insert"
    /\ LET t == reqs[r]
           chunks == Chunked[t.text]
           row == InsertedRow(<<chunks[t.i + 1], embeddingLiteral(t.emb), t.i>>, r)
           hit == {k \in 1..Len(documents) : documents[k].chunk_index = t.i}
           u == [t EXCEPT !.nDb = @ + 1, !.i = @ + 1]
       IN  /\ documents' = IF hit = {} THEN Append(documents, row)
                           ELSE [k \in 1..Len(documents) |->
                                    IF k \in hit THEN row ELSE documents[k]]
           /\ reqs' = [reqs EXCEPT ![r] =
                  IF t.i + 1 < Len(chunks) THEN [u EXCEPT !.pc = "embed"]
                  ELSE AfterIngest(u)]
    /\ UNCHANGED <<memoryLog, schema>>

\* await pool.query(INSERT ..., [chunk, embeddingLiteral, i])
IngestInsert(r) ==
    /\ reqs[r].pc = "insert"
    /\ \E db \in DbOutcomes :
          LET t == reqs[r]
              chunks == Chunked[t.text]
              params == <<chunks[t.i + 1], embeddingLiteral(t.emb), t.i>>
              u == [t EXCEPT !.nDb = @ + 1]
          IN  IF Accepted(InsertSQL, params, db)
              THEN /\ documents' = Append(documents, InsertedRow(params, r))
                   /\ reqs' = [reqs EXCEPT ![r] =
                          IF t.i + 1 < Len(chunks)
                          THEN [u EXCEPT !.i = @ + 1, !.pc = "embed"]
                          ELSE AfterIngest([u EXCEPT !.i = @ + 1])]
              ELSE /\ documents' = AfterFailure(documents, r)
                   /\ reqs' = [reqs EXCEPT ![r] = Throw(u, "insert")]
    /\ UNCHANGED <<memoryLog, schema>>

(***************************************************************************)
(* await memory.addMessage(marker, USER_ID, conversationId)                *)
(***************************************************************************)
AddMessage(r) ==
    /\ reqs[r].pc = "addMessage"
    /\ \E mem \in DbOutcomes :
          LET t == reqs[r] IN
          IF mem = "ok"
          THEN /\ memoryLog' = [memoryLog EXCEPT ![t.conv[1]] =
                      Append(@, [role |-> "system",
                                 content |-> MarkerMessage(t.text).content, by |-> r])]
               /\ reqs' = [reqs EXCEPT ![r] =
                      IF t.kind = "ingest"
                      THEN Respond(t, 200, [NoBody EXCEPT !.success = TRUE])
                      ELSE [t EXCEPT !.pc = "search"]]
          ELSE /\ memoryLog' = memoryLog
               /\ reqs' = [reqs EXCEPT ![r] = Throw(t, "addMessage")]
    /\ UNCHANGED <<documents, schema>>

(***************************************************************************)
(* POST /api/chat                                                          *)
(***************************************************************************)
StartChat(r) ==
    /\ Free(r)
    /\ \E body \in ChatBodies :
          LET text == StringOf(body.text)
              t == [Idle EXCEPT !.kind = "chat", !.text = text,
                        !.conv = IF body.conversationId = <<>> THEN <<GeneratedConv>>
                                 ELSE body.conversationId]
          IN  reqs' = [reqs EXCEPT ![r] =
                  IF ChatRejects(text)
                  THEN Respond(t, 400, [NoBody EXCEPT !.error = "text is required"])
                  ELSE [t EXCEPT !.query = text, !.limit = RagLimit, !.pc = "search"]]
    /\ UNCHANGED <<documents, memoryLog, schema>>

(***************************************************************************)
(* POST /api/mm-chat                                                       *)
(***************************************************************************)
StartMm(r) ==
    /\ Free(r)
    /\ \E form \in MmForms :
          LET uploadedText == StringOf(form.file)
              t == [Idle EXCEPT !.kind = "mm", !.text = uploadedText,
                        !.conv = IF Truthy(form.conversationId) THEN form.conversationId
                                 ELSE <<GeneratedConv>>,
                        !.query = EffectiveQuestion(StringOf(form.question), uploadedText),
                        !.limit = RagLimit]
          IN  reqs' = [reqs EXCEPT ![r] =
                  IF Trim(uploadedText) # <<>>
                  THEN ingestDocumentText(t, uploadedText)
                  ELSE [t EXCEPT !.pc = "search"]]
    /\ UNCHANGED <<documents, memoryLog, schema>>

(***************************************************************************)
(* searchDocumentsByQuery(query, limit)                                    *)
(***************************************************************************)
\* up to and including  await getEmbedding(q)
SearchEmbed(r) ==
    /\ reqs[r].pc = "search"
    /\ \E prov \in ProviderOutcomes :
          LET t == reqs[r]
              q == Trim(t.query)
              e == getEmbedding(q, prov)
              u == [t EXCEPT !.nEmbed = @ + (IF e.called THEN 1 ELSE 0)]
          IN  reqs' = [reqs EXCEPT ![r] =
                  IF q = <<>> THEN AfterSearch(t, "none", <<>>)
                  ELSE IF e.ok THEN [u EXCEPT !.emb = e.emb, !.pc = "select"]
                  ELSE AfterSearch(u, "searchEmbed", <<>>)]
    /\ UNCHANGED <<documents, memoryLog, schema>>

\* await pool.query(SELECT ..., [embeddingLiteral, limit])
SearchSelect(r) ==
    /\ reqs[r].pc = "select"
    /\ \E db \in DbOutcomes :
          LET t == reqs[r]
              params == <<embeddingLiteral(t.emb), t.limit>>
              u == [t EXCEPT !.nDb = @ + 1]
          IN  reqs' = [reqs EXCEPT ![r] =
                  IF Accepted(SelectSQL, params, db)
                  THEN AfterSearch(u, "none", SelectRows(documents, params))
                  ELSE AfterSearch(u, IF db = "ok" THEN "rejected" ELSE "connection", <<>>)]
    /\ UNCHANGED <<documents, memoryLog, schema>>

(***************************************************************************)
(* await agent.generateText(messages, {userId, conversationId, ...})       *)
(***************************************************************************)
Generate(r) ==
    /\ reqs[r].pc = "generate"
    /\ \E gen \in GenOutcomes :
          LET t == reqs[r]
              text == IF gen = "ok" THEN <<AnswerText>> ELSE <<>>
              u == [t EXCEPT !.nGen = @ + 1]
          IN  reqs' = [reqs EXCEPT ![r] =
                  IF gen = "error" THEN Throw(u, "generate")
                  ELSE IF t.kind = "chat"
                  THEN Respond(u, 200, [NoBody EXCEPT !.text = text,
                                                      !.conversationId = t.conv])
                  ELSE Respond(u, 200,
                           [NoBody EXCEPT !.answer = IF text = <<>> THEN <<NoAnswer>> ELSE text,
                                          !.conversationId = t.conv])]
    /\ UNCHANGED <<documents, memoryLog, schema>>

\* The server: requests arrive and their handlers interleave at the awaits.
Next ==
    \E r \in Slots :
        \/ StartIngest(r)
        \/ StartChat(r)
        \/ StartMm(r)
        \/ IngestEmbed(r)
        \/ IngestInsert(r)
        \/ AddMessage(r)
        \/ SearchEmbed(r)
        \/ SearchSelect(r)
        \/ Generate(r)

Spec == Init /\ [][Next]_vars

(***************************************************************************)
(* Direct calls of the functions of vector-store.ts, with any argument.    *)
(***************************************************************************)
\* await splitIntoChunks(text)
CallSplit(r) ==
    /\ Free(r)
    /\ \E text \in LibTexts :
          reqs' = [reqs EXCEPT ![r] =
              [Idle EXCEPT !.kind = "splitCall", !.text = text, !.pc = "done",
                           !.outcome = "returned", !.value = Chunked[text]]]
    /\ UNCHANGED <<documents, memoryLog, schema>>

\* await getEmbedding(text)
CallGetEmbedding(r) ==
    /\ Free(r)
    /\ \E text \in LibQueries, prov \in ProviderOutcomes :
          LET e == getEmbedding(text, prov) IN
          reqs' = [reqs EXCEPT ![r] =
              [Idle EXCEPT !.kind = "embedCall", !.text = text, !.pc = "done",
                           !.outcome = IF e.ok THEN "returned" ELSE "threw",
                           !.err = e.err, !.value = e.emb,
                           !.nEmbed = IF e.called THEN 1 ELSE 0]]
    /\ UNCHANGED <<documents, memoryLog, schema>>

\* ingestDocumentText(text)
StartIngestCall(r) ==
    /\ Free(r)
    /\ \E text \in LibTexts :
          reqs' = [reqs EXCEPT ![r] =
              ingestDocumentText([Idle EXCEPT !.kind = "ingestCall"], text)]
    /\ UNCHANGED <<documents, memoryLog, schema>>

\* searchDocumentsByQuery(query, limit)
StartSearchCall(r) ==
    /\ Free(r)
    /\ \E query \in LibQueries, limit \in Limits :
          reqs' = [reqs EXCEPT ![r] =
              [Idle EXCEPT !.kind = "searchCall", !.text = query, !.query = query,
                           !.limit = limit, !.pc = "search"]]
    /\ UNCHANGED <<documents, memoryLog, schema>>

NextLib ==
    \E r \in Slots :
        \/ CallSplit(r)
        \/ CallGetEmbedding(r)
        \/ StartIngestCall(r)
        \/ StartSearchCall(r)
        \/ IngestEmbed(r)
        \/ IngestInsert(r)
        \/ SearchEmbed(r)
        \/ SearchSelect(r)

SpecLib == Init /\ [][NextLib]_vars

(***************************************************************************)
(* Context assembly and message building for any rows: a /api/chat or a    *)
(* /api/mm-chat request whose query has been embedded, and a SELECT that   *)
(* either fails as above or hands back any list of rows.                   *)
(***************************************************************************)
InitAssemble ==
    /\ \E kind \in {"chat", "mm"} :
          reqs = [r \in Slots |->
                    IF r = 1
                    THEN [Idle EXCEPT !.kind = kind, !.text = ShortText,
                                      !.conv = <<GeneratedConv>>, !.query = ShortText,
                                      !.limit = RagLimit, !.nEmbed = 1,
                                      !.emb = ProviderVector(Trim(ShortText)),
                                      !.pc = "select"]
                    ELSE Idle]
    /\ documents = <<>>
    /\ memoryLog = [c \in Conversations |-> <<>>]
    /\ schema = Initialized

\* res.rows of a SELECT that the database answers
RowsReturned(r) ==
    /\ reqs[r].pc = "select"
    /\ \E contents \in RowLists :
          LET rows == [k \in 1..Len(contents) |-> [id |-> k, content |-> contents[k]]] IN
          reqs' = [reqs EXCEPT ![r] = AfterSearch([reqs[r] EXCEPT !.nDb = @ + 1], "none", rows)]
    /\ UNCHANGED <<documents, memoryLog, schema>>

NextAssemble ==
    \E r \in Slots :
        \/ RowsReturned(r)
        \/ SearchSelect(r)
        \/ Generate(r)

SpecAssemble == InitAssemble /\ [][NextAssemble]_vars

(***************************************************************************)
(* initDocumentVectorTable called again and again, one call after the      *)
(* other, on a database in any of the conditions a first call may find.    *)
(***************************************************************************)
\* records stored before the first call: none without a table; rows of an
\* older table carry no chunk_index
StoredBefore(s) ==
    IF TablesNamed(s, "documents") = {} THEN {<<>>}
    ELSE IF HasColumn(s, "documents", "chunk_index")
    THEN {<<>>, <<InsertedRow(<<ShortText, embeddingLiteral(ProviderVector(ShortText)), 0>>, 0)>>}
    ELSE {<<>>, <<[content |-> ShortText, embedding |-> ProviderVector(ShortText), by |-> 0]>>}

InitSchema ==
    /\ reqs = [r \in Slots |-> Idle]
    /\ memoryLog = [c \in Conversations |-> <<>>]
    /\ schema \in InitSchemas
    /\ documents \in StoredBefore(schema)

\* a call begins when the call before it has ended
StartInit(r) ==
    /\ reqs[r].pc = "idle"
    /\ IF r = 1 THEN TRUE ELSE reqs[r - 1].pc = "done"
    /\ reqs' = [reqs EXCEPT ![r] = [Idle EXCEPT !.kind = "initCall", !.pc = "connect"]]
    /\ UNCHANGED <<documents, memoryLog, schema>>

\* const client = await pool.connect()
InitConnect(r) ==
    /\ reqs[r].pc = "connect"
    /\ \E db \in DbOutcomes :
          reqs' = [reqs EXCEPT ![r] =
              IF db = "ok" THEN [reqs[r] EXCEPT !.pc = "query", !.i = 0]
              ELSE Throw(reqs[r], "connection")]
    /\ UNCHANGED <<documents, memoryLog, schema>>

\* await client.query(...): the next of the four statements; after the last
\* one, or an error, the finally block releases the client
InitQuery(r) ==
    /\ reqs[r].pc = "query"
    /\ \E db \in DbOutcomes :
          LET t == reqs[r]
              stmt == InitStatements[t.i + 1]
              res == Execute(schema, stmt)
              u == [t EXCEPT !.nDb = @ + 1]
          IN  IF db = "ok"
              THEN /\ schema' = res.schema
                   /\ reqs' = [reqs EXCEPT ![r] =
                          IF res.err # "none" THEN Throw(u, res.err)
                          ELSE IF t.i + 1 < Len(InitStatements) THEN [u EXCEPT !.i = @ + 1]
                          ELSE [u EXCEPT !.i = @ + 1, !.pc = "done", !.outcome = "returned"]]
              ELSE /\ schema' = schema
                   /\ reqs' = [reqs EXCEPT ![r] = Throw(u, "connection")]
    /\ UNCHANGED <<documents, memoryLog>>

NextInit ==
    \E r \in Slots :
        \/ StartInit(r)
        \/ InitConnect(r)
        \/ InitQuery(r)

SpecInit == InitSchema /\ [][NextInit]_vars

(***************************************************************************)
(* Properties.                                                             *)
(***************************************************************************)
Blank(s) == Trim(s) = <<>>

\* the rows request r has inserted, in insertion order
RowsBy(r) == SelectSeq(documents, LAMBDA d : d.by = r)

\* the messages request r has appended to conversation c
MarkersBy(r, c) == SelectSeq(memoryLog[c], LAMBDA m : m.by = r)

\* the number of messages request r has appended to the memory store
RECURSIVE CountMarkers(_, _)
CountMarkers(r, C) ==
    IF C = {} THEN 0
    ELSE LET c == CHOOSE c \in C : TRUE
         IN  Len(MarkersBy(r, c)) + CountMarkers(r, C \ {c})

UserOnly(t) == <<[role |-> "user", content |-> t.query]>>

\* C1: in /api/chat and /api/mm-chat an error raised during retrieval (by the
\* embedding call or by the SELECT) is caught: the request goes on to
\* agent.generateText with the user message alone, and when generation
\* succeeds the response is 200 with an answer.
C1_RetrievalNeverFatal ==
    \A r \in Slots :
        LET t == reqs[r] IN
        (t.kind \in {"chat", "mm"} /\ t.search = "threw") =>
            /\ t.pc \in {"generate", "done"}
            /\ t.rag = <<>>
            /\ t.messages = UserOnly(t)
            /\ t.pc = "done" => t.nGen = 1
            /\ (t.pc = "done" /\ t.err = "none") =>
                   /\ t.status = 200
                   /\ t.kind = "chat" => t.body.text = <<AnswerText>>
                   /\ t.kind = "mm" => t.body.answer = <<AnswerText>>
                   /\ t.body.conversationId = t.conv

\* a chat request whose embedding call failed and an mm-chat request whose
\* SELECT failed have both been answered 200
C1_Witness ==
    \E r1, r2 \in Slots :
        /\ reqs[r1].kind = "chat" /\ reqs[r1].search = "threw" /\ reqs[r1].nDb = 0
        /\ reqs[r1].pc = "done" /\ reqs[r1].status = 200
        /\ reqs[r2].kind = "mm" /\ reqs[r2].search = "threw" /\ reqs[r2].nDb > 0
        /\ reqs[r2].text = <<>>
        /\ reqs[r2].pc = "done" /\ reqs[r2].status = 200

\* C2 as stated: /api/documents/ingest answers 400 when the text is blank or
\* absent and 200 {success: true} in every other case.
C2_Original ==
    \A r \in Slots :
        LET t == reqs[r] IN
        (t.kind = "ingest" /\ t.pc = "done") =>
            IF Blank(t.text) THEN t.status = 400
            ELSE t.status = 200 /\ t.body.success

\* C2 amended: /api/documents/ingest answers 400 exactly when the text is
\* blank or absent, and then without any provider or database call; for any
\* other text it answers 200 {success: true} when ingestDocumentText and, if
\* a conversationId is given, memory.addMessage succeed, and an error
\* response without success when the embedding call, the INSERT or
\* memory.addMessage fails.
C2_IngestResponse ==
    \A r \in Slots :
        LET t == reqs[r] IN
        (t.kind = "ingest" /\ t.pc = "done") =>
            /\ Blank(t.text) <=> t.status = 400
            /\ t.status = 400 =>
                   /\ t.body = [NoBody EXCEPT !.error = "text is required"]
                   /\ t.nEmbed = 0 /\ t.nDb = 0
            /\ (~Blank(t.text) /\ t.err = "none") =>
                   /\ t.status = 200
                   /\ t.body = [NoBody EXCEPT !.success = TRUE]
            /\ (~Blank(t.text) /\ t.err # "none") =>
                   /\ t.err \in {"embed", "insert", "addMessage"}
                   /\ t.status = 500
                   /\ ~t.body.success

\* a blank text has been answered 400 and a failed ingestion 500
C2_Witness ==
    \E r1, r2 \in Slots :
        /\ reqs[r1].kind = "ingest" /\ reqs[r1].text = Whitespace /\ reqs[r1].status = 400
        /\ reqs[r2].kind = "ingest" /\ reqs[r2].err = "insert" /\ reqs[r2].status = 500

\* C3: /api/chat answers 400 to an absent, empty or whitespace-only text and
\* makes no call of agent.generateText (nor of the provider or the database).
C3_ChatBlankRejected ==
    \A r \in Slots :
        LET t == reqs[r] IN
        (t.kind = "chat" /\ Blank(t.text)) =>
            /\ t.pc = "done"
            /\ t.status = 400
            /\ t.body = [NoBody EXCEPT !.error = "text is required"]
            /\ t.nGen = 0 /\ t.nEmbed = 0 /\ t.nDb = 0

\* a whitespace-only chat text has been answered 400
C3_Witness ==
    \E r \in Slots :
        /\ reqs[r].kind = "chat" /\ reqs[r].text = Whitespace /\ reqs[r].status = 400

\* C4 as stated: for a non-blank query, with the provider and the connection
\* working, searchDocumentsByQuery(q, N) returns at most N rows by
\* non-increasing cosine similarity to the embedding of q.
C4_SearchSortedTopN ==
    \A r \in Slots :
        LET t == reqs[r] IN
        (/\ t.kind = "searchCall" /\ t.pc = "done"
         /\ ~Blank(t.query)
         /\ t.err \notin {"searchEmbed", "connection"}) =>
            /\ t.outcome = "returned"
            /\ Len(t.value) <= t.limit
            /\ \A j, k \in 1..Len(t.value) :
                   j < k => SimGeq(t.value[j].embedding, t.value[k].embedding, t.emb)

\* C5: when the embedding call or the INSERT of a chunk fails, the request
\* of /api/documents/ingest or /api/mm-chat ends with the error: no success
\* is reported, no marker message is written and agent.generateText (and the
\* retrieval before it) is never reached.
C5_IngestFailureSurfaced ==
    \A r \in Slots :
        LET t == reqs[r] IN
        (t.kind \in {"ingest", "mm"} /\ t.err \in {"embed", "insert"}) =>
            /\ t.pc = "done"
            /\ t.status = 500
            /\ ~t.body.success
            /\ ~t.ingested
            /\ CountMarkers(r, Conversations) = 0
            /\ t.search = "none"
            /\ t.nGen = 0

\* an ingest request has failed at an embedding call and an mm-chat request
\* at an INSERT
C5_Witness ==
    \E r1, r2 \in Slots :
        /\ reqs[r1].kind = "ingest" /\ reqs[r1].err = "embed" /\ reqs[r1].pc = "done"
        /\ reqs[r2].kind = "mm" /\ reqs[r2].err = "insert" /\ reqs[r2].pc = "done"

\* C6: at every moment the rows a call of ingestDocumentText has inserted
\* are the records of its chunks 0..i-1, in order, i the number of chunks
\* done.  When the embed or insert step of chunk k fails the caller gets the
\* error, the rows of chunks 0..k-1 stay, no later chunk is embedded or
\* inserted; a later ingest of the same text adds these rows once more.
C6_PartialFailure ==
    /\ \A r \in Slots :
           LET t == reqs[r]
               rows == RowsBy(r)
           IN  t.kind \in {"ingest", "mm"} =>
                   /\ Len(rows) = t.i
                   /\ \A j \in 1..Len(rows) :
                          /\ rows[j].content = Chunked[t.text][j]
                          /\ rows[j].chunk_index = j - 1
                          /\ rows[j].embedding = ProviderVector(Chunked[t.text][j])
                   /\ t.err \in {"embed", "insert"} =>
                          /\ t.pc = "done" /\ t.status = 500
                          /\ t.i < Len(Chunked[t.text])
                          /\ t.nEmbed = t.i + 1
                          /\ t.nDb = t.i + (IF t.err = "insert" THEN 1 ELSE 0)
    /\ \A r1, r2 \in Slots :
           (/\ r1 # r2
            /\ reqs[r1].err \in {"embed", "insert"}
            /\ reqs[r2].ingested
            /\ reqs[r2].text = reqs[r1].text) =>
               \A j \in 1..reqs[r1].i :
                   Cardinality({k \in 1..Len(documents) :
                                   /\ documents[k].content = Chunked[reqs[r1].text][j]
                                   /\ documents[k].chunk_index = j - 1}) >= 2

\* an ingest of a three-chunk text failed after its first chunk, and the
\* same text was then ingested in full: the first chunk is stored twice
C6_Witness ==
    \E r1, r2 \in Slots :
        /\ reqs[r1].kind = "ingest" /\ reqs[r1].err \in {"embed", "insert"}
        /\ reqs[r1].i = 1 /\ Len(Chunked[reqs[r1].text]) = 3
        /\ reqs[r2].kind = "ingest" /\ reqs[r2].text = reqs[r1].text
        /\ reqs[r2].ingested
        /\ Len(documents) = 4
        /\ documents[1].by = r1

\* length of snippet k of the rows docs: header "Snippet k:\n" and at most
\* SnippetCap characters of content
SegLen(docs, k) ==
    LET n == Len(docs[k].content) IN
    Len(SnippetWord) + Len(ToStr(k)) + Len(SnippetColon)
        + (IF n < SnippetCap THEN n ELSE SnippetCap)

\* offset of snippet k in the joined string
RECURSIVE SegStart(_, _)
SegStart(docs, k) ==
    IF k = 1 THEN 0
    ELSE SegStart(docs, k - 1) + SegLen(docs, k - 1) + Len(SnippetSeparator)

\* C7: for any rows returned, the RAG context is at most 4000 characters
\* long: it is the first 4000 characters of the snippets joined by the
\* separator, snippet k being "Snippet k:\n" followed by the first 1000
\* characters of the content of the k-th row returned.
C7_ContextBounded ==
    \A r \in Slots :
        LET t == reqs[r]
            n == Len(t.docs)
            total == IF n = 0 THEN 0 ELSE SegStart(t.docs, n) + SegLen(t.docs, n)
        IN  t.search = "returned" =>
                /\ Len(t.rag) <= MaxChars
                /\ Len(t.rag) = IF total < MaxChars THEN total ELSE MaxChars
                /\ \A k \in 1..n :
                       LET start == SegStart(t.docs, k)
                           head == SnippetWord \o ToStr(k) \o SnippetColon
                           content == t.docs[k].content
                       IN  /\ \A p \in 1..Len(head) :
                                  start + p <= Len(t.rag) => t.rag[start + p] = head[p]
                           /\ \A p \in 1..Len(content) :
                                  (p <= SnippetCap /\ start + Len(head) + p <= Len(t.rag)) =>
                                      t.rag[start + Len(head) + p] = content[p]
                           /\ \A p \in 1..Len(SnippetSeparator) :
                                  (k < n /\ start + SegLen(t.docs, k) + p <= Len(t.rag)) =>
                                      t.rag[start + SegLen(t.docs, k) + p] = SnippetSeparator[p]

\* four rows, one of them longer than 1000 characters, whose snippets exceed
\* 4000 characters together: the context is cut to exactly 4000
C7_Witness ==
    \E r \in Slots :
        /\ reqs[r].search = "returned"
        /\ Len(reqs[r].docs) >= 4
        /\ \E k \in 1..Len(reqs[r].docs) : Len(reqs[r].docs[k].content) > SnippetCap
        /\ SegStart(reqs[r].docs, 4) + SegLen(reqs[r].docs, 4) > MaxChars
        /\ Len(reqs[r].rag) = MaxChars

\* C8: the messages of every call of agent.generateText are [user] or
\* [system, user]; the system message, prefix plus RAG context, is there
\* exactly when retrieval returned at least one row, and its context is
\* never empty.
C8_MessageShape ==
    \A r \in Slots :
        LET t == reqs[r]
            m == t.messages
        IN  (t.pc = "generate" \/ t.nGen > 0) =>
                /\ Len(m) \in {1, 2}
                /\ m[Len(m)] = [role |-> "user", content |-> t.query]
                /\ Len(m) = 2 <=> (t.search = "returned" /\ Len(t.docs) >= 1)
                /\ Len(m) = 2 =>
                       /\ m[1].role = "system"
                       /\ t.rag # <<>>
                       /\ m[1].content = SystemPrefix \o t.rag
                /\ t.nGen <= 1

\* a generation call was made with [system, user] after a row was returned
C8_Witness ==
    \E r \in Slots :
        /\ reqs[r].nGen = 1
        /\ Len(reqs[r].docs) = 1
        /\ Len(reqs[r].messages) = 2

\* C9: called with an empty or whitespace-only text, splitIntoChunks
\* returns [], searchDocumentsByQuery returns [], getEmbedding throws its
\* empty-input error and ingestDocumentText returns without a row; none of
\* them calls the embedding provider or the database.
C9_BlankNoExternalCall ==
    \A r \in Slots :
        LET t == reqs[r] IN
        (t.kind # "none" /\ Blank(t.text)) =>
            /\ t.nEmbed = 0 /\ t.nDb = 0
            /\ RowsBy(r) = <<>>
            /\ t.pc \in {"search", "done"}
            /\ t.pc = "search" => t.kind = "searchCall"
            /\ t.pc = "done" =>
                   /\ t.kind \in {"splitCall", "searchCall"} =>
                          t.outcome = "returned" /\ t.value = <<>>
                   /\ t.kind = "embedCall" =>
                          t.outcome = "threw" /\ t.err = "EmptyInput"
                   /\ t.kind = "ingestCall" =>
                          t.outcome = "returned" /\ t.err = "none"

\* a whitespace-only ingest and a whitespace-only getEmbedding have ended
C9_Witness ==
    \E r1, r2 \in Slots :
        /\ reqs[r1].kind = "ingestCall" /\ reqs[r1].text = Whitespace /\ reqs[r1].pc = "done"
        /\ reqs[r2].kind = "embedCall" /\ reqs[r2].text = Whitespace /\ reqs[r2].pc = "done"

\* first PreviewCap characters of the text, "..." when it is longer
ExpectedMarker(text) ==
    IngestMarker
        \o [k \in 1..(IF Len(text) < PreviewCap THEN Len(text) ELSE PreviewCap) |-> text[k]]
        \o (IF Len(text) > PreviewCap THEN <<".", ".", ".">> ELSE <<>>)

\* the request is past its ingestion and the marker step that follows it
PastMarker(t) == t.ingested /\ t.pc # "addMessage"

\* C10 as stated: every text ingested through /api/documents/ingest or
\* /api/mm-chat has exactly one system marker message in the memory store.
C10_Original ==
    \A r \in Slots :
        LET t == reqs[r] IN
        (t.kind \in {"ingest", "mm"} /\ PastMarker(t)) =>
            CountMarkers(r, Conversations) = 1

\* C10 amended: a request writes at most one marker, after all its chunks
\* are inserted, into its conversation, with role system and the first 300
\* characters of the text given to ingestDocumentText plus "..." exactly
\* when that text is longer.  It writes exactly one when the ingestion
\* succeeded, memory.addMessage succeeded and (for /api/documents/ingest) a
\* non-empty conversationId was given; /api/documents/ingest without a
\* conversationId writes none.
C10_MarkerAfterIngest ==
    \A r \in Slots :
        LET t == reqs[r]
            n == CountMarkers(r, Conversations)
        IN  t.kind \in {"ingest", "mm"} =>
                /\ n <= 1
                /\ n = 1 =>
                       /\ t.ingested
                       /\ Len(RowsBy(r)) = Len(Chunked[t.text])
                       /\ Len(Chunked[t.text]) >= 1
                       /\ MarkersBy(r, t.conv[1]) =
                              <<[role |-> "system", content |-> ExpectedMarker(t.text),
                                 by |-> r]>>
                /\ (PastMarker(t) /\ t.err # "addMessage"
                        /\ (t.kind = "ingest" => Truthy(t.conv))) => n = 1
                /\ (t.kind = "ingest" /\ ~Truthy(t.conv)) => n = 0
                /\ t.err = "addMessage" => n = 0 /\ t.status = 500

\* an ingest of a text longer than 300 characters has been answered 200 with
\* its marker written, and an mm-chat upload has its marker written
C10_Witness ==
    \E r1, r2 \in Slots :
        /\ reqs[r1].kind = "ingest" /\ reqs[r1].status = 200
        /\ Len(reqs[r1].text) > PreviewCap
        /\ CountMarkers(r1, Conversations) = 1
        /\ reqs[r2].kind = "mm" /\ reqs[r2].ingested
        /\ CountMarkers(r2, Conversations) = 1

\* the retrieval of the request has been issued or is the next step
AtOrPastRetrieval(t) ==
    t.pc \in {"search", "select", "generate"} \/ t.search # "none" \/ t.nGen > 0

\* C11: in a /api/mm-chat request with a non-blank file, all chunks of the
\* file are inserted (and the marker written) before the retrieval is
\* issued; in every /api/mm-chat request the retrieval has ended before
\* agent.generateText is called, which is called once; a request that no
\* step has ended with an error answers 200 {answer, conversationId}, with
\* the conversationId of the form when it has a non-empty one.
C11_MmStepOrder ==
    \A r \in Slots :
        LET t == reqs[r] IN
        t.kind = "mm" =>
            /\ (~Blank(t.text) /\ AtOrPastRetrieval(t)) =>
                   /\ t.ingested
                   /\ t.i = Len(Chunked[t.text])
                   /\ Len(RowsBy(r)) = Len(Chunked[t.text])
                   /\ \A j \in 1..Len(RowsBy(r)) : RowsBy(r)[j].content = Chunked[t.text][j]
                   /\ CountMarkers(r, Conversations) = 1
            /\ (Blank(t.text) /\ t.pc # "idle") =>
                   /\ RowsBy(r) = <<>>
                   /\ CountMarkers(r, Conversations) = 0
            /\ (t.pc = "generate" \/ t.nGen > 0) => t.search # "none"
            /\ t.nGen <= 1
            /\ t.pc = "done" => (t.err = "none" <=> t.status = 200)
            /\ (t.pc = "done" /\ t.err = "none") =>
                   /\ t.nGen = 1
                   /\ t.body = [NoBody EXCEPT !.answer = <<AnswerText>>,
                                              !.conversationId = t.conv]
                   /\ t.conv \in {<<"c1">>, <<GeneratedConv>>}
                   /\ \A form \in MmForms :
                          (StringOf(form.file) = t.text /\ Truthy(form.conversationId)) =>
                              t.body.conversationId = form.conversationId

\* a file was ingested, retrieved against and answered 200, and a request
\* with a conversationId of its own was answered 200 with it
C11_Witness ==
    \E r1, r2 \in Slots :
        /\ reqs[r1].kind = "mm" /\ reqs[r1].text = ShortText
        /\ reqs[r1].status = 200 /\ Len(RowsBy(r1)) = 1
        /\ reqs[r1].body.conversationId = <<GeneratedConv>>
        /\ reqs[r2].kind = "mm" /\ reqs[r2].text = <<>>
        /\ reqs[r2].status = 200 /\ reqs[r2].body.conversationId = <<"c1">>

\* how often a structure occurs in the catalog
CountOf(seq, Test(_)) == Cardinality({k \in 1..Len(seq) : Test(seq[k])})

\* no structure occurs twice, whatever the calls have done so far
NoDuplicates ==
    /\ CountOf(schema.extensions, LAMBDA e : e = "vector") <= 1
    /\ CountOf(schema.tables, LAMBDA t : t.name = "documents") <= 1
    /\ CountOf(schema.indexes, LAMBDA x : x.name = "embeddingindex") <= 1
    /\ \A k \in 1..Len(schema.tables) :
           CountOf(schema.tables[k].columns, LAMBDA c : c = "chunk_index") <= 1

\* exactly one of each structure
ExactlyOne ==
    /\ CountOf(schema.extensions, LAMBDA e : e = "vector") = 1
    /\ CountOf(schema.tables, LAMBDA t : t.name = "documents") = 1
    /\ CountOf(schema.indexes, LAMBDA x : x.name = "embeddingindex") = 1
    /\ \A k \in TablesNamed(schema, "documents") :
           CountOf(schema.tables[k].columns, LAMBDA c : c = "chunk_index") = 1

InitCallsOK ==
    /\ NoDuplicates
    /\ \A r \in Slots :
           LET t == reqs[r] IN
           t.kind = "initCall" =>
               /\ t.err \in {"none", "connection"}
               /\ (t.pc = "done" /\ t.outcome = "returned") =>
                      /\ ExactlyOne
                      /\ schema = Initialized
                      /\ t.nDb = Len(InitStatements)

\* C12: a call of initDocumentVectorTable never fails because a structure
\* exists already (only a lost connection fails it); a call that returns
\* leaves exactly one vector extension, one documents table, one
\* chunk_index column and one embedding index; no call, first or repeated,
\* changes the stored records.
C12_InitIdempotent == []InitCallsOK /\ [][documents' = documents]_vars

\* a second call has returned after a first one, on a database that held a
\* record
C12_Witness ==
    \E r \in Slots :
        /\ r > 1
        /\ reqs[r].kind = "initCall" /\ reqs[r].outcome = "returned"
        /\ reqs[1].outcome = "returned"
        /\ Len(documents) = 1
        /\ ExactlyOne

\* C13: one call of ingestDocumentText works through its chunks one at a
\* time.  With i chunks done it has embedded i chunks and inserted i rows
\* when it is about to embed, and embedded i + 1 and inserted i when it is
\* about to insert: the embedding of chunk i + 1 never starts before the row
\* of chunk i is in.  A call that returns has embedded each of its n chunks
\* once and inserted n rows, row i with chunk_index i and the content and
\* embedding of chunk i.
C13_SequentialChunks ==
    \A r \in Slots :
        LET t == reqs[r]
            rows == RowsBy(r)
            chunks == Chunked[t.text]
        IN  t.kind = "ingestCall" =>
                /\ Len(rows) = t.i
                /\ t.nDb = t.i + (IF t.err = "insert" THEN 1 ELSE 0)
                /\ t.nEmbed - Len(rows) \in {0, 1}
                /\ t.pc = "embed" => t.nEmbed = t.i /\ t.i < Len(chunks)
                /\ t.pc = "insert" =>
                       /\ t.nEmbed = t.i + 1
                       /\ t.emb = ProviderVector(chunks[t.i + 1])
                /\ (t.pc = "done" /\ t.outcome = "returned") =>
                       /\ t.nEmbed = Len(chunks)
                       /\ Len(rows) = Len(chunks)
                       /\ {rows[j].chunk_index : j \in 1..Len(rows)} = 0..(Len(chunks) - 1)
                /\ \A j \in 1..Len(rows) :
                       /\ rows[j].chunk_index = j - 1
                       /\ rows[j].content = chunks[j]
                       /\ rows[j].embedding = ProviderVector(chunks[j])

\* a call on a three-chunk text has returned, its rows interleaved with
\* those of another call
C13_Witness ==
    \E r \in Slots :
        /\ reqs[r].kind = "ingestCall" /\ reqs[r].outcome = "returned"
        /\ Len(Chunked[reqs[r].text]) = 3
        /\ reqs[r].nEmbed = 3
        /\ \E k \in 1..(Len(documents) - 1) :
               documents[k].by = r /\ documents[k + 1].by # r

\* every row stored before the step is still there, in its place
AppendOnlyStep ==
    /\ Len(documents') >= Len(documents)
    /\ SubSeq(documents', 1, Len(documents)) = documents
    /\ Len(documents') <= Len(documents) + 1

\* a step of a searchDocumentsByQuery call leaves the table as it is
SearchReadOnlyStep ==
    (\E r \in Slots : reqs'[r] # reqs[r] /\ reqs'[r].kind = "searchCall") =>
        documents' = documents

\* a returned ingestion has one row per chunk of its own text, in order
OwnRowsComplete ==
    \A r \in Slots :
        (reqs[r].kind = "ingestCall" /\ reqs[r].pc = "done"
            /\ reqs[r].outcome = "returned") =>
            /\ Len(RowsBy(r)) = Len(Chunked[reqs[r].text])
            /\ \A j \in 1..Len(RowsBy(r)) :
                   RowsBy(r)[j].content = Chunked[reqs[r].text][j]

\* C14: however ingestDocumentText and searchDocumentsByQuery calls
\* interleave, every step leaves the stored rows in place and adds at most
\* one row at the end (no update, no delete, the count never decreases), a
\* step of a search changes nothing, and an ingestion that has returned has
\* exactly one row for each chunk of its text.
C14_AppendOnly ==
    []OwnRowsComplete /\ [][AppendOnlyStep /\ SearchReadOnlyStep]_vars

\* an ingestion of three chunks has returned while a search, whose SELECT
\* was sent, ran against the same table
C14_Witness ==
    \E r1, r2 \in Slots :
        /\ reqs[r1].kind = "ingestCall" /\ reqs[r1].outcome = "returned"
        /\ Len(RowsBy(r1)) = 3
        /\ reqs[r2].kind = "searchCall" /\ reqs[r2].pc = "done" /\ reqs[r2].nDb = 1
        /\ r2 < r1

====
